---- MODULE Spec2Model ----
(***************************************************************************)
(* State-machine model of mapray's SceneLoader (src/mapray/SceneLoader.js).*)
(*                                                                         *)
(* JavaScript runs every handler to completion, so one action is one       *)
(* handler: the constructor, a promise reaction of the manifest chain or   *)
(* of a mesh-binary chain, an image event, cancel(), or the microtask that *)
(* cancel() schedules.  The methods of the class are operators that map a  *)
(* state record to a state record, composed the way the methods call each  *)
(* other.                                                                  *)
(***************************************************************************)
EXTENDS Integers, Sequences, FiniteSets, TLC

VARIABLES
    stage,           \* position of the promise chain of _loadFile, per loader
    cancelled,       \* this._cancelled
    finished,        \* this._finished
    aborted,         \* this._abort_ctrl.signal.aborted
    references,      \* this._references
    oscene,          \* the parsed manifest handed to _load_object
    req_count,       \* oscene.req_count
    req_ended,       \* oscene.req_ended
    mesh_task,       \* position of the promise chain of each _load_mesh_binary
    tex_task,        \* state of the Image of each _load_texture_image
    cancel_jobs,     \* microtasks queued by cancel() that have not run yet
    scene_loaders,   \* the scene's active loaders
    scene_entities,  \* the scene's entity list
    callbacks,       \* arguments of the invocations of this._callback, in order
    remove_calls,    \* number of scene.removeLoader( this ) calls
    cancel_calls,    \* number of cancel() calls
    builds,          \* (req_count, req_ended) seen at each run of the entity builder
    seen,            \* number of the loader's entities in the scene at each invocation
                     \* of this._callback
    registered_at_fetch, \* whether the scene held the loader when _loadFile called fetch
    lookup,          \* the latest getReference call: its argument and what it returned
    viewer           \* the Viewer that owns the scene: its fields, the animation-frame
                     \* requests of its window, and a log of what ran

vars == << stage, cancelled, finished, aborted, references, oscene, req_count,
           req_ended, mesh_task, tex_task, cancel_jobs, scene_loaders,
           scene_entities, callbacks, remove_calls, cancel_calls, builds, seen,
           registered_at_fetch, lookup, viewer >>

----------------------------------------------------------------------------
(* Bounds of the model *)

MaxEntities == 2     \* longest entity_list of a manifest
MaxRegs     == 2     \* most entries of mesh_register and texture_register together
MaxCancels  == 2     \* most cancel() calls on one loader
MaxLookupEntities == 1   \* longest entity_list where getReference calls are interleaved
MaxLookupRegs     == 1   \* most register entries where getReference calls are interleaved
MaxPairEntities   == 1   \* longest entity_list when two loaders run on one scene
MaxPairRegs       == 2   \* most register entries when two loaders run on one scene
MaxPairCancels    == 1   \* most cancel() calls on one of two loaders
MaxFrames         == 2   \* most runs of Viewer._updateFrame
MaxDestroys       == 2   \* most Viewer.destroy() calls

----------------------------------------------------------------------------
(* Input domains *)

Loaders == {"L1", "L2"}
Ids     == {"a", "b"}
KeyOrder == << "a", "b" >>          \* Object.keys order of a register

NoId   == ""                         \* item.id missing (or any falsy id)
NoType == ""                         \* item.type missing

\* an entry of mesh_register: { binary: url }, { vertices: ... }, neither, or no entry
MeshKinds == {"binary", "vertices", "empty", "absent"}
\* an entry of texture_register: { image: url }, without image, or no entry
TexKinds  == {"image", "empty", "absent"}
TypeTags  == {"generic", "markerline", "text", "unknown", NoType}

\* identifiers an entity descriptor may carry ("a" is also a register key)
EntityIds == {NoId, "a"}
Descriptors == [type : TypeTags, id : EntityIds]
EntityLists == UNION { [1..n -> Descriptors] : n \in 0..MaxEntities }

Entries(m) ==
    Cardinality({i \in Ids : m.mesh_register[i] # "absent"})
  + Cardinality({i \in Ids : m.texture_register[i] # "absent"})

\* The registers of a manifest.  entity_list is the third part of a manifest; the
\* loader reads it only in _load_entity_list, and the model draws it there.
Registers ==
    { m \in [mesh_register : [Ids -> MeshKinds],
             texture_register : [Ids -> TexKinds]] : Entries(m) <= MaxRegs }

EmptyScene ==
    [mesh_register |-> [i \in Ids |-> "absent"],
     texture_register |-> [i \in Ids |-> "absent"],
     entity_list |-> << >>]

----------------------------------------------------------------------------
(* Objects stored in a reference table *)

Undefined == [kind |-> "undefined", from |-> "", index |-> 0]
Null      == [kind |-> "null", from |-> "", index |-> 0]
Mesh(from)    == [kind |-> "mesh", from |-> from, index |-> 0]
Texture       == [kind |-> "texture", from |-> "image", index |-> 0]
Entity(type, i) == [kind |-> "entity", from |-> type, index |-> i]

\* this._references is a plain object ( {} ): a property it does not own is
\* looked up in Object.prototype, which holds functions under names such as
\* "toString"
BuiltinFunction == [kind |-> "function", from |-> "Object.prototype", index |-> 0]
Inherited(id) == IF id = "toString" THEN BuiltinFunction ELSE Undefined

\* identifiers getReference is called with: those of the manifests and one more
LookupIds == Ids \cup {"toString"}

NoLookup == [id |-> "", result |-> Undefined]

----------------------------------------------------------------------------
(* The program state as one record, and its write-back *)

State ==
    [stage |-> stage, cancelled |-> cancelled, finished |-> finished,
     aborted |-> aborted, references |-> references, oscene |-> oscene,
     req_count |-> req_count, req_ended |-> req_ended, mesh_task |-> mesh_task,
     tex_task |-> tex_task, cancel_jobs |-> cancel_jobs,
     scene_loaders |-> scene_loaders, scene_entities |-> scene_entities,
     callbacks |-> callbacks, remove_calls |-> remove_calls,
     cancel_calls |-> cancel_calls, builds |-> builds, seen |-> seen,
     registered_at_fetch |-> registered_at_fetch, lookup |-> lookup,
     viewer |-> viewer]

Becomes(s) ==
    /\ stage' = s.stage
    /\ cancelled' = s.cancelled
    /\ finished' = s.finished
    /\ aborted' = s.aborted
    /\ references' = s.references
    /\ oscene' = s.oscene
    /\ req_count' = s.req_count
    /\ req_ended' = s.req_ended
    /\ mesh_task' = s.mesh_task
    /\ tex_task' = s.tex_task
    /\ cancel_jobs' = s.cancel_jobs
    /\ scene_loaders' = s.scene_loaders
    /\ scene_entities' = s.scene_entities
    /\ callbacks' = s.callbacks
    /\ remove_calls' = s.remove_calls
    /\ cancel_calls' = s.cancel_calls
    /\ builds' = s.builds
    /\ seen' = s.seen
    /\ registered_at_fetch' = s.registered_at_fetch
    /\ lookup' = s.lookup
    /\ viewer' = s.viewer

----------------------------------------------------------------------------
(* Scene: the loader set and the entity list *)

addLoader(s, l)    == [s EXCEPT !.scene_loaders = @ \cup {l}]

removeLoader(s, l) ==
    [s EXCEPT !.scene_loaders = @ \ {l}, !.remove_calls[l] = @ + 1]

addEntity(s, e)    == [s EXCEPT !.scene_entities = Append(@, e)]

----------------------------------------------------------------------------
(* SceneLoader methods *)

\* this._callback( this, isSuccess )
callback(s, l, isSuccess) ==
    [s EXCEPT !.callbacks[l] = Append(@, isSuccess),
              !.seen[l] = Append(@, Len(SelectSeq(s.scene_entities,
                                                  LAMBDA e : e.loader = l)))]

\* this._references[id]: the own property, or else the inherited one
property(s, l, id) ==
    IF id \in Ids /\ s.references[l][id] # Undefined THEN s.references[l][id]
    ELSE Inherited(id)

getReference(s, l, id) ==
    LET ref == property(s, l, id)
    IN  IF ref # Undefined THEN ref ELSE Null

\* variant: the loaders of a scene write to one table
setReference_shared(s, l, id, item) ==
    [s EXCEPT !.references = [m \in Loaders |-> [@[m] EXCEPT ![id] = item]]]

\* variant: an identifier that is taken keeps its object
setReference_first_wins(s, l, id, item) ==
    IF s.references[l][id] # Undefined THEN s
    ELSE [s EXCEPT !.references[l][id] = item]

setReference(s, l, id, item) == [s EXCEPT !.references[l][id] = item]

\* TRUE when _check_cancel throws
check_cancel(s, l) == s.cancelled[l]

\* variant: the microtask does not look at _finished
cancel_callback_unguarded(s, l) == callback(s, l, FALSE)

cancel_callback(s, l) ==
    IF s.finished[l] THEN s
    ELSE callback(s, l, FALSE)

\* variant: a loader that succeeded stays registered with the scene
success_callback_keeps_loader(s, l) ==
    IF s.cancelled[l] THEN s
    ELSE callback([s EXCEPT !.finished[l] = TRUE], l, TRUE)

success_callback(s, l) ==
    IF s.cancelled[l] THEN s
    ELSE callback(removeLoader([s EXCEPT !.finished[l] = TRUE], l), l, TRUE)

\* variant: the loader stays registered with the scene
fail_callback_keeps_loader(s, l) ==
    IF s.cancelled[l] THEN s
    ELSE callback([s EXCEPT !.finished[l] = TRUE], l, FALSE)

\* variant: a failure is reported whether or not the load was cancelled
fail_callback_unchecked(s, l) ==
    callback(removeLoader([s EXCEPT !.finished[l] = TRUE], l), l, FALSE)

fail_callback(s, l) ==
    IF s.cancelled[l] THEN s
    ELSE callback(removeLoader([s EXCEPT !.finished[l] = TRUE], l), l, FALSE)

RECURSIVE load_entity_items(_, _, _)
load_entity_items(s, l, i) ==
    LET entity_list == s.oscene[l].entity_list
    IN  IF i > Len(entity_list) THEN s
        ELSE LET item == entity_list[i]
                 type == IF item.type # NoType THEN item.type ELSE "generic"
                 known == type \in {"generic", "markerline", "text"}
                 entity == Entity(type, i)
                 s1 == IF ~known THEN s
                       ELSE IF item.id # NoId
                            THEN setReference(addEntity(s, [loader |-> l, entity |-> entity]),
                                              l, item.id, entity)
                            ELSE addEntity(s, [loader |-> l, entity |-> entity])
             IN  load_entity_items(s1, l, i + 1)

\* variant: the entities reach the scene in reverse order
load_entity_list_reversed(s, l, entity_list) ==
    LET s1 == load_entity_items([s EXCEPT !.oscene[l].entity_list = entity_list], l, 1)
        n == Len(s.scene_entities)
        m == Len(s1.scene_entities)
    IN  [s1 EXCEPT !.scene_entities =
            [k \in 1..m |-> IF k <= n THEN s1.scene_entities[k]
                            ELSE s1.scene_entities[m - (k - n) + 1]]]

\* entity_list: oscene["entity_list"] as this first read of it finds it
load_entity_list(s, l, entity_list) ==
    load_entity_items([s EXCEPT !.oscene[l].entity_list = entity_list], l, 1)

\* variant: success is reported before the entities are built
postload_object_callback_first(s, l, entity_list) ==
    IF s.cancelled[l] THEN s
    ELSE LET s1 == [s EXCEPT !.builds[l] =
                        Append(@, [req_count |-> s.req_count[l],
                                   req_ended |-> s.req_ended[l]])]
         IN  load_entity_list(success_callback(s1, l), l, entity_list)

\* variant: the entity builder runs whether or not the load was cancelled
postload_object_unchecked(s, l, entity_list) ==
    LET s1 == [s EXCEPT !.builds[l] =
                   Append(@, [req_count |-> s.req_count[l],
                              req_ended |-> s.req_ended[l]])]
    IN  success_callback(load_entity_list(s1, l, entity_list), l)

postload_object(s, l, entity_list) ==
    IF s.cancelled[l] THEN s
    ELSE LET s1 == [s EXCEPT !.builds[l] =
                        Append(@, [req_count |-> s.req_count[l],
                                   req_ended |-> s.req_ended[l]])]
         IN  success_callback(load_entity_list(s1, l, entity_list), l)

\* variant: the join does not wait for the counter to reach 0
postload_object_ifNoReq_early(s, l, entity_list) ==
    LET s1 == [s EXCEPT !.req_count[l] = @ - 1]
    IN  IF s1.req_ended[l]
        THEN postload_object(s1, l, entity_list)
        ELSE s1

postload_object_ifNoReq(s, l, entity_list) ==
    LET s1 == [s EXCEPT !.req_count[l] = @ - 1]
    IN  IF s1.req_count[l] = 0 /\ s1.req_ended[l]
        THEN postload_object(s1, l, entity_list)
        ELSE s1

load_mesh_binary(s, l, id) ==
    [s EXCEPT !.mesh_task[l][id] = "fetch", !.req_count[l] = @ + 1]

RECURSIVE load_mesh_keys(_, _, _)
load_mesh_keys(s, l, i) ==
    IF i > Len(KeyOrder) THEN s
    ELSE LET id == KeyOrder[i]
             mesh == s.oscene[l].mesh_register[id]
             s1 == IF mesh = "binary" THEN load_mesh_binary(s, l, id)
                   ELSE IF mesh = "vertices" THEN setReference(s, l, id, Mesh("vertices"))
                   ELSE s
         IN  load_mesh_keys(s1, l, i + 1)

load_mesh_register(s, l) == load_mesh_keys(s, l, 1)

load_texture_image(s, l, id) ==
    [s EXCEPT !.tex_task[l][id] = "load", !.req_count[l] = @ + 1]

RECURSIVE load_texture_keys(_, _, _)
load_texture_keys(s, l, i) ==
    IF i > Len(KeyOrder) THEN s
    ELSE LET id == KeyOrder[i]
             texture == s.oscene[l].texture_register[id]
             s1 == IF texture = "image" THEN load_texture_image(s, l, id) ELSE s
         IN  load_texture_keys(s1, l, i + 1)

load_texture_register(s, l) == load_texture_keys(s, l, 1)

\* variant: the rest is loaded only from the completion of a sub-resource
load_object_waits(s, l, json, entity_list) ==
    LET parsed == [mesh_register |-> json.mesh_register,
                   texture_register |-> json.texture_register,
                   entity_list |-> << >>]
        s0 == [s EXCEPT !.oscene[l] = parsed, !.req_count[l] = 0, !.req_ended[l] = FALSE]
        s1 == load_texture_register(load_mesh_register(s0, l), l)
    IN  [s1 EXCEPT !.req_ended[l] = TRUE]

\* variant: the rest is loaded at once, whatever the counter says
load_object_always_postload(s, l, json, entity_list) ==
    LET parsed == [mesh_register |-> json.mesh_register,
                   texture_register |-> json.texture_register,
                   entity_list |-> << >>]
        s0 == [s EXCEPT !.oscene[l] = parsed, !.req_count[l] = 0, !.req_ended[l] = FALSE]
        s1 == load_texture_register(load_mesh_register(s0, l), l)
        s2 == postload_object(s1, l, entity_list)
    IN  [s2 EXCEPT !.req_ended[l] = TRUE]

load_object(s, l, json, entity_list) ==
    LET parsed == [mesh_register |-> json.mesh_register,
                   texture_register |-> json.texture_register,
                   entity_list |-> << >>]
        s0 == [s EXCEPT !.oscene[l] = parsed, !.req_count[l] = 0, !.req_ended[l] = FALSE]
        s1 == load_texture_register(load_mesh_register(s0, l), l)
        s2 == IF s1.req_count[l] = 0 THEN postload_object(s1, l, entity_list) ELSE s1
    IN  [s2 EXCEPT !.req_ended[l] = TRUE]

loadFile(s, l) ==
    [s EXCEPT !.stage[l] = "fetch",
              !.registered_at_fetch[l] = l \in s.scene_loaders]

\* variant: the loader is never registered with the scene
constructor_unregistered(s, l) ==
    LET s0 == [s EXCEPT !.references[l] = [i \in Ids |-> Undefined],
                        !.cancelled[l] = FALSE,
                        !.finished[l] = FALSE,
                        !.aborted[l] = FALSE]
    IN  loadFile(s0, l)

constructor(s, l) ==
    LET s0 == [s EXCEPT !.references[l] = [i \in Ids |-> Undefined],
                        !.cancelled[l] = FALSE,
                        !.finished[l] = FALSE,
                        !.aborted[l] = FALSE]
    IN  addLoader(loadFile(s0, l), l)

\* variant: the cancellation is reported before cancel() returns
cancel_synchronous(s, l) ==
    IF s.cancelled[l] THEN s
    ELSE LET s1 == [s EXCEPT !.aborted[l] = TRUE, !.cancelled[l] = TRUE]
         IN  cancel_callback(removeLoader(s1, l), l)

\* variant: no microtask is queued
cancel_without_notify(s, l) ==
    IF s.cancelled[l] THEN s
    ELSE removeLoader([s EXCEPT !.aborted[l] = TRUE, !.cancelled[l] = TRUE], l)

\* variant: the loader stays registered with the scene
cancel_keeps_loader(s, l) ==
    IF s.cancelled[l] THEN s
    ELSE [s EXCEPT !.aborted[l] = TRUE, !.cancelled[l] = TRUE, !.cancel_jobs[l] = @ + 1]

\* variant: no early return when already cancelled
cancel_unguarded(s, l) ==
    LET s1 == [s EXCEPT !.aborted[l] = TRUE, !.cancelled[l] = TRUE]
        s2 == removeLoader(s1, l)
    IN  [s2 EXCEPT !.cancel_jobs[l] = @ + 1]

cancel(s, l) ==
    IF s.cancelled[l] THEN s
    ELSE LET s1 == [s EXCEPT !.aborted[l] = TRUE, !.cancelled[l] = TRUE]
             s2 == removeLoader(s1, l)
         IN  [s2 EXCEPT !.cancel_jobs[l] = @ + 1]

----------------------------------------------------------------------------
(* Viewer: the frame loop and destroy() *)

\* the Viewer when its constructor returns: a render callback of the caller
\* attached, the canvas in the container, the first frame requested
NewViewer ==
    [frame_req_id |-> 1, is_destroyed |-> FALSE, render_callback |-> "user",
     canvas_attached |-> TRUE,
     raf_last |-> 1,         \* the latest id maprayRequestAnimationFrame returned
     raf_pending |-> {1},    \* the requests the window has yet to serve
     frame_runs |-> 0,       \* runs of _updateFrame
     user_updates |-> 0,     \* onUpdateFrameInner calls on the caller's render callback
     teardown |-> << >>,     \* the teardown steps destroy() has performed
     destroy_calls |-> 0]

\* window.maprayRequestAnimationFrame( () => this._updateFrame() )
requestNextFrame(s) ==
    [s EXCEPT !.viewer.raf_last = @ + 1,
              !.viewer.raf_pending = @ \cup {s.viewer.raf_last + 1},
              !.viewer.frame_req_id = s.viewer.raf_last + 1]

updateFrame(s) ==
    LET s1 == requestNextFrame([s EXCEPT !.viewer.frame_runs = @ + 1])
    IN  IF s1.viewer.render_callback = "user"
        THEN [s1 EXCEPT !.viewer.user_updates = @ + 1]
        ELSE s1

\* this._scene.cancelLoaders(): cancel() on every loader of the scene
cancelLoaders(s) ==
    LET s1 == IF "L1" \in s.scene_loaders THEN cancel(s, "L1") ELSE s
    IN  IF "L2" \in s1.scene_loaders THEN cancel(s1, "L2") ELSE s1

\* variant: no early return when already destroyed
destroy_unguarded(s) ==
    LET s1 == IF s.viewer.frame_req_id # 0
              THEN [s EXCEPT !.viewer.raf_pending = @ \ {s.viewer.frame_req_id},
                             !.viewer.frame_req_id = 0,
                             !.viewer.teardown = Append(@, "cancelAnimationFrame")]
              ELSE s
        s2 == [s1 EXCEPT !.viewer.render_callback = "null",
                         !.viewer.canvas_attached = FALSE,
                         !.viewer.teardown = @ \o << "detach", "removeChild", "globe.cancel",
                                                    "tile_texture_cache.cancel",
                                                    "layers.cancel", "cancelLoaders" >>]
        s3 == cancelLoaders(s2)
    IN  [s3 EXCEPT !.viewer.is_destroyed = TRUE]

destroy(s) ==
    IF s.viewer.is_destroyed THEN s
    ELSE LET s1 == IF s.viewer.frame_req_id # 0
                   THEN [s EXCEPT !.viewer.raf_pending = @ \ {s.viewer.frame_req_id},
                                  !.viewer.frame_req_id = 0,
                                  !.viewer.teardown = Append(@, "cancelAnimationFrame")]
                   ELSE s
             s2 == [s1 EXCEPT !.viewer.render_callback = "null",
                              !.viewer.canvas_attached = FALSE,
                              !.viewer.teardown = @ \o << "detach", "removeChild", "globe.cancel",
                                                         "tile_texture_cache.cancel",
                                                         "layers.cancel", "cancelLoaders" >>]
             s3 == cancelLoaders(s2)
         IN  [s3 EXCEPT !.viewer.is_destroyed = TRUE]

----------------------------------------------------------------------------
(* Handlers *)

\* The entity lists a handler may find: all of E when it runs the entity builder
\* (the builder reads oscene["entity_list"]), none to choose from otherwise.
JoinReads(s, l, E) ==
    IF postload_object_ifNoReq(s, l, << >>).builds[l] # s.builds[l] THEN E ELSE {<< >>}

ParseReads(s, l, json, E) ==
    IF load_object(s, l, json, << >>).builds[l] # s.builds[l] THEN E ELSE {<< >>}

\* new SceneLoader( scene, url, options )
Construct(l) ==
    /\ stage[l] = "new"
    /\ Becomes(constructor(State, l))

\* the .catch of _loadFile
ManifestCatch(s, l) == fail_callback([s EXCEPT !.stage[l] = "failed"], l)

\* fetch() of the manifest resolved: first .then of _loadFile
ManifestResponse(l) ==
    /\ stage[l] = "fetch"
    /\ Becomes(IF check_cancel(State, l) THEN ManifestCatch(State, l)
               ELSE [State EXCEPT !.stage[l] = "json"])

\* fetch() of the manifest rejected (network error or abort)
ManifestFetchError(l) ==
    /\ stage[l] = "fetch"
    /\ Becomes(ManifestCatch(State, l))

\* response.json() resolved: second .then of _loadFile
ManifestJson(l, R, E) ==
    /\ stage[l] = "json"
    /\ IF check_cancel(State, l)
       THEN Becomes(ManifestCatch(State, l))
       ELSE LET s1 == [State EXCEPT !.stage[l] = "loaded"]
            IN  \E json \in R : \E entity_list \in ParseReads(s1, l, json, E) :
                    Becomes(load_object(s1, l, json, entity_list))

\* response.json() rejected (malformed body or abort)
ManifestJsonError(l) ==
    /\ stage[l] = "json"
    /\ Becomes(ManifestCatch(State, l))

\* fetch() of a mesh binary resolved: first .then of _load_mesh_binary
MeshResponse(l, id) ==
    /\ mesh_task[l][id] = "fetch"
    /\ Becomes(IF check_cancel(State, l)
               THEN [State EXCEPT !.mesh_task[l][id] = "join_cancel"]
               ELSE [State EXCEPT !.mesh_task[l][id] = "body"])

\* fetch() of a mesh binary rejected (network error or abort): .catch
MeshFetchError(l, id) ==
    /\ mesh_task[l][id] = "fetch"
    /\ Becomes([State EXCEPT !.mesh_task[l][id] =
                    IF aborted[l] THEN "join_cancel" ELSE "join_err"])

\* variant: the mesh built from the buffer is not stored
MeshBuffer_nowrite(l, id) ==
    /\ mesh_task[l][id] = "body"
    /\ Becomes(IF check_cancel(State, l)
               THEN [State EXCEPT !.mesh_task[l][id] = "join_cancel"]
               ELSE [State EXCEPT !.mesh_task[l][id] = "join_ok"])

\* variant: no _check_cancel after the body has been read
MeshBuffer_unchecked(l, id) ==
    /\ mesh_task[l][id] = "body"
    /\ Becomes(setReference([State EXCEPT !.mesh_task[l][id] = "join_ok"],
                            l, id, Mesh("binary")))

\* response.arrayBuffer() resolved: second .then of _load_mesh_binary
MeshBuffer(l, id) ==
    /\ mesh_task[l][id] = "body"
    /\ Becomes(IF check_cancel(State, l)
               THEN [State EXCEPT !.mesh_task[l][id] = "join_cancel"]
               ELSE setReference([State EXCEPT !.mesh_task[l][id] = "join_ok"],
                                 l, id, Mesh("binary")))

\* response.arrayBuffer() rejected (network error or abort): .catch
MeshBufferError(l, id) ==
    /\ mesh_task[l][id] = "body"
    /\ Becomes([State EXCEPT !.mesh_task[l][id] =
                    IF aborted[l] THEN "join_cancel" ELSE "join_err"])

\* last .then of _load_mesh_binary
MeshJoin(l, id, E) ==
    /\ mesh_task[l][id] \in {"join_ok", "join_err", "join_cancel"}
    /\ LET done == CASE mesh_task[l][id] = "join_ok" -> "done_ok"
                     [] mesh_task[l][id] = "join_err" -> "done_err"
                     [] OTHER -> "done_cancel"
           s1 == [State EXCEPT !.mesh_task[l][id] = done]
       IN  \E entity_list \in JoinReads(s1, l, E) :
               Becomes(postload_object_ifNoReq(s1, l, entity_list))

\* variant: an image that arrives after the cancellation does not count down
ImageOnload_dropped_when_cancelled(l, id, E) ==
    /\ tex_task[l][id] = "load"
    /\ IF cancelled[l]
       THEN Becomes([State EXCEPT !.tex_task[l][id] = "done_cancel"])
       ELSE LET s1 == setReference([State EXCEPT !.tex_task[l][id] = "done_ok"],
                                   l, id, Texture)
            IN  \E entity_list \in JoinReads(s1, l, E) :
                    Becomes(postload_object_ifNoReq(s1, l, entity_list))

\* image.onload of _load_texture_image
ImageOnload(l, id, E) ==
    /\ tex_task[l][id] = "load"
    /\ LET s1 == IF ~cancelled[l]
                 THEN setReference([State EXCEPT !.tex_task[l][id] = "done_ok"],
                                   l, id, Texture)
                 ELSE [State EXCEPT !.tex_task[l][id] = "done_cancel"]
       IN  \E entity_list \in JoinReads(s1, l, E) :
               Becomes(postload_object_ifNoReq(s1, l, entity_list))

\* variant: a failed image does not count down
ImageOnerror_nodecrement(l, id, E) ==
    /\ tex_task[l][id] = "load"
    /\ Becomes([State EXCEPT !.tex_task[l][id] = "done_err"])

\* image.onerror of _load_texture_image
ImageOnerror(l, id, E) ==
    /\ tex_task[l][id] = "load"
    /\ LET s1 == [State EXCEPT !.tex_task[l][id] = "done_err"]
       IN  \E entity_list \in JoinReads(s1, l, E) :
               Becomes(postload_object_ifNoReq(s1, l, entity_list))

\* loader.getReference( id ), called by a collaborator at any time
GetReference(l, id) ==
    /\ stage[l] # "new"
    /\ Becomes([State EXCEPT !.lookup = [id |-> id, result |-> getReference(State, l, id)]])

\* loader.cancel()
Cancel(l) ==
    /\ stage[l] # "new"
    /\ cancel_calls[l] < MaxCancels
    /\ Becomes(cancel([State EXCEPT !.cancel_calls[l] = @ + 1], l))

\* the microtask queued by cancel()
CancelCallback(l) ==
    /\ cancel_jobs[l] > 0
    /\ Becomes(cancel_callback([State EXCEPT !.cancel_jobs[l] = @ - 1], l))

----------------------------------------------------------------------------
(* Specifications *)

Init ==
    /\ stage = [l \in Loaders |-> "new"]
    /\ cancelled = [l \in Loaders |-> FALSE]
    /\ finished = [l \in Loaders |-> FALSE]
    /\ aborted = [l \in Loaders |-> FALSE]
    /\ references = [l \in Loaders |-> [i \in Ids |-> Undefined]]
    /\ oscene = [l \in Loaders |-> EmptyScene]
    /\ req_count = [l \in Loaders |-> 0]
    /\ req_ended = [l \in Loaders |-> FALSE]
    /\ mesh_task = [l \in Loaders |-> [i \in Ids |-> "none"]]
    /\ tex_task = [l \in Loaders |-> [i \in Ids |-> "none"]]
    /\ cancel_jobs = [l \in Loaders |-> 0]
    /\ scene_loaders = {}
    /\ scene_entities = << >>
    /\ callbacks = [l \in Loaders |-> << >>]
    /\ remove_calls = [l \in Loaders |-> 0]
    /\ cancel_calls = [l \in Loaders |-> 0]
    /\ builds = [l \in Loaders |-> << >>]
    /\ seen = [l \in Loaders |-> << >>]
    /\ registered_at_fetch = [l \in Loaders |-> FALSE]
    /\ lookup = NoLookup
    /\ viewer = NewViewer

\* one loader, every manifest within the bounds
Next ==
    \/ Construct("L1")
    \/ ManifestResponse("L1")
    \/ ManifestFetchError("L1")
    \/ ManifestJson("L1", Registers, EntityLists)
    \/ ManifestJsonError("L1")
    \/ \E id \in Ids : MeshResponse("L1", id)
    \/ \E id \in Ids : MeshFetchError("L1", id)
    \/ \E id \in Ids : MeshBuffer("L1", id)
    \/ \E id \in Ids : MeshBufferError("L1", id)
    \/ \E id \in Ids : MeshJoin("L1", id, EntityLists)
    \/ \E id \in Ids : ImageOnload("L1", id, EntityLists)
    \/ \E id \in Ids : ImageOnerror("L1", id, EntityLists)
    \/ Cancel("L1")
    \/ CancelCallback("L1")

Spec == Init /\ [][Next]_vars

\* the microtask queued by cancel() always runs
FairSpec == Spec /\ WF_vars(CancelCallback("L1"))

\* the window serves a pending animation-frame request: _updateFrame runs
UpdateFrame(id) ==
    /\ id \in viewer.raf_pending
    /\ viewer.frame_runs < MaxFrames
    /\ Becomes(updateFrame([State EXCEPT !.viewer.raf_pending = @ \ {id}]))

\* viewer.destroy(), called outside the render callback's methods
Destroy ==
    /\ viewer.destroy_calls < MaxDestroys
    /\ Becomes(destroy([State EXCEPT !.viewer.destroy_calls = @ + 1]))

\* one loader with getReference calls at any moment, over the smaller manifests
LookupNext ==
    \/ Construct("L1")
    \/ ManifestResponse("L1")
    \/ ManifestFetchError("L1")
    \/ ManifestJson("L1", {m \in Registers : Entries(m) <= MaxLookupRegs},
                          {e \in EntityLists : Len(e) <= MaxLookupEntities})
    \/ ManifestJsonError("L1")
    \/ \E id \in Ids : MeshResponse("L1", id)
    \/ \E id \in Ids : MeshFetchError("L1", id)
    \/ \E id \in Ids : MeshBuffer("L1", id)
    \/ \E id \in Ids : MeshBufferError("L1", id)
    \/ \E id \in Ids : MeshJoin("L1", id, {e \in EntityLists : Len(e) <= MaxLookupEntities})
    \/ \E id \in Ids : ImageOnload("L1", id, {e \in EntityLists : Len(e) <= MaxLookupEntities})
    \/ \E id \in Ids : ImageOnerror("L1", id, {e \in EntityLists : Len(e) <= MaxLookupEntities})
    \/ Cancel("L1")
    \/ CancelCallback("L1")
    \/ \E id \in LookupIds : GetReference("L1", id)

LookupSpec == Init /\ [][LookupNext]_vars

\* the manifests of two loaders on one scene: sub-resources and entities under
\* the one identifier both loaders use
PairRegisters ==
    {m \in Registers : /\ Entries(m) <= MaxPairRegs
                       /\ m.mesh_register["a"] \in {"binary", "absent"}
                       /\ m.mesh_register["b"] = "absent"
                       /\ m.texture_register["a"] \in {"image", "absent"}
                       /\ m.texture_register["b"] = "absent"}

PairEntityLists ==
    {e \in EntityLists : /\ Len(e) <= MaxPairEntities
                         /\ \A i \in DOMAIN e : e[i] = [type |-> "generic", id |-> "a"]}

\* two loaders on one scene, their handlers interleaved
PairNext ==
    \E l \in Loaders :
       \/ Construct(l)
       \/ ManifestResponse(l)
       \/ ManifestFetchError(l)
       \/ ManifestJson(l, PairRegisters, PairEntityLists)
       \/ ManifestJsonError(l)
       \/ \E id \in Ids : MeshResponse(l, id)
       \/ \E id \in Ids : MeshFetchError(l, id)
       \/ \E id \in Ids : MeshBuffer(l, id)
       \/ \E id \in Ids : MeshBufferError(l, id)
       \/ \E id \in Ids : MeshJoin(l, id, PairEntityLists)
       \/ \E id \in Ids : ImageOnload(l, id, PairEntityLists)
       \/ \E id \in Ids : ImageOnerror(l, id, PairEntityLists)
       \/ (cancel_calls[l] < MaxPairCancels /\ Cancel(l))
       \/ CancelCallback(l)

PairSpec == Init /\ [][PairNext]_vars

\* a Viewer with its frame loop and one loader on its scene; the loader is
\* started while the Viewer is alive (a destroyed Viewer must not be used)
ViewerNext ==
    \/ (~viewer.is_destroyed /\ Construct("L1"))
    \/ ManifestResponse("L1")
    \/ ManifestFetchError("L1")
    \/ ManifestJson("L1", PairRegisters, PairEntityLists)
    \/ ManifestJsonError("L1")
    \/ \E id \in Ids : MeshResponse("L1", id)
    \/ \E id \in Ids : MeshFetchError("L1", id)
    \/ \E id \in Ids : MeshBuffer("L1", id)
    \/ \E id \in Ids : MeshBufferError("L1", id)
    \/ \E id \in Ids : MeshJoin("L1", id, PairEntityLists)
    \/ \E id \in Ids : ImageOnload("L1", id, PairEntityLists)
    \/ \E id \in Ids : ImageOnerror("L1", id, PairEntityLists)
    \/ (cancel_calls["L1"] < MaxPairCancels /\ Cancel("L1"))
    \/ CancelCallback("L1")
    \/ \E id \in 1..(MaxFrames + 1) : UpdateFrame(id)
    \/ Destroy

ViewerSpec == Init /\ [][ViewerNext]_vars

----------------------------------------------------------------------------
(* Vocabulary of the properties *)

MeshInFlight == {"fetch", "body", "join_ok", "join_err", "join_cancel"}

\* sub-resource fetches dispatched and not yet counted down
InFlight(l) ==
    Cardinality({i \in Ids : mesh_task[l][i] \in MeshInFlight})
  + Cardinality({i \in Ids : tex_task[l][i] = "load"})

\* sub-resource fetches dispatched
Dispatched(l) ==
    Cardinality({i \in Ids : mesh_task[l][i] # "none"})
  + Cardinality({i \in Ids : tex_task[l][i] # "none"})

\* the scene's entities that loader l added, in order
EntitiesOf(l) == SelectSeq(scene_entities, LAMBDA e : e.loader = l)

Fired(l, isSuccess) == \E i \in DOMAIN callbacks[l] : callbacks[l][i] = isSuccess

\* a sub-resource registered under id failed to load
Failed(l, id) == mesh_task[l][id] = "done_err" \/ tex_task[l][id] = "done_err"

\* something else of the manifest was stored under id
Shared(l, id) ==
    \/ oscene[l].mesh_register[id] = "vertices"
    \/ mesh_task[l][id] \in {"join_ok", "done_ok"}
    \/ tex_task[l][id] = "done_ok"
    \/ \E i \in DOMAIN oscene[l].entity_list :
          /\ oscene[l].entity_list[i].id = id
          /\ oscene[l].entity_list[i].type # "unknown"

----------------------------------------------------------------------------
(* Properties *)

\* C1: whatever the order of manifest completion, sub-resource completions and
\* cancel() calls, the completion callback of a loader is invoked at most once
\* (success, failure and cancellation invocations counted together).
C1_CallbackAtMostOnce == \A l \in Loaders : Len(callbacks[l]) <= 1

\* a load that succeeded with a mesh, then was cancelled twice, microtask run
C1_Witness ==
    /\ callbacks["L1"] = << TRUE >>
    /\ cancel_calls["L1"] = 2
    /\ cancel_jobs["L1"] = 0
    /\ \E id \in Ids : mesh_task["L1"][id] = "done_ok"

\* C2: after cancel() on a loader whose terminal callback has not fired, the
\* callback eventually fires with FALSE, and it has not fired and never fires
\* with TRUE.
C2_CancelWins ==
    \A l \in Loaders :
       /\ []((cancelled[l] /\ ~finished[l]) => [](~Fired(l, TRUE)))
       /\ (cancelled[l] /\ ~finished[l]) ~> (callbacks[l] = << FALSE >>)

\* cancelled while an image was loading; the image arrived afterwards
C2_Witness ==
    /\ cancelled["L1"] /\ ~finished["L1"]
    /\ callbacks["L1"] = << FALSE >>
    /\ stage["L1"] = "loaded"
    /\ \E id \in Ids : tex_task["L1"][id] = "done_cancel"

\* C3 as stated: the entity builder of a load runs exactly once, and when it
\* runs req_count = 0 and req_ended is true, also for zero sub-resources.
C3_Original ==
    \A l \in Loaders :
       /\ Len(builds[l]) <= 1
       /\ Fired(l, TRUE) => Len(builds[l]) = 1
       /\ \A i \in DOMAIN builds[l] :
             builds[l][i].req_count = 0 /\ builds[l][i].req_ended

\* C3 amended: the entity builder of a load runs at most once, exactly once by
\* the time success is reported, and when it runs req_count = 0; req_ended is
\* true then exactly when the manifest dispatched some sub-resource fetch (with
\* none, _load_object runs the builder before it sets req_ended).
C3_JoinFiresOnce ==
    \A l \in Loaders :
       /\ Len(builds[l]) <= 1
       /\ Fired(l, TRUE) => Len(builds[l]) = 1
       /\ \A i \in DOMAIN builds[l] :
             /\ builds[l][i].req_count = 0
             /\ builds[l][i].req_ended = (Dispatched(l) > 0)

\* the builder ran from the completion of the last of two sub-resources
C3_Witness ==
    /\ builds["L1"] = << [req_count |-> 0, req_ended |-> TRUE] >>
    /\ Dispatched("L1") = 2

\* C4: no entity is built before every sub-resource of the registers has been
\* dispatched and has completed; each identifier of a dispatched sub-resource is
\* then in the reference table, or its load failed.
C4_BuildAfterJoin ==
    \A l \in Loaders :
       (builds[l] # << >> \/ EntitiesOf(l) # << >>) =>
          \A id \in Ids :
             /\ oscene[l].mesh_register[id] = "binary"
                   => mesh_task[l][id] \in {"done_ok", "done_err"}
             /\ oscene[l].texture_register[id] = "image"
                   => tex_task[l][id] \in {"done_ok", "done_err"}
             /\ mesh_task[l][id] \in {"none", "done_ok", "done_err"}
             /\ tex_task[l][id] \in {"none", "done_ok", "done_err"}
             /\ (mesh_task[l][id] = "done_ok" \/ tex_task[l][id] = "done_ok")
                   => references[l][id] # Undefined

\* an entity was built after a mesh had loaded and an image had failed
C4_Witness ==
    /\ EntitiesOf("L1") # << >>
    /\ \E id \in Ids : mesh_task["L1"][id] = "done_ok"
    /\ \E id \in Ids : tex_task["L1"][id] = "done_err"

C6_ManifestFailureIsFatal ==
    \A l \in Loaders :
       (stage[l] = "failed" /\ (finished[l] \/ ~cancelled[l])) =>
          /\ finished[l]
          /\ callbacks[l] = << FALSE >>
          /\ Dispatched(l) = 0
          /\ EntitiesOf(l) = << >>
          /\ l \notin scene_loaders

\* the manifest failed on a loader nobody cancelled
C6_Witness ==
    /\ stage["L1"] = "failed"
    /\ ~cancelled["L1"]
    /\ cancel_calls["L1"] = 0
    /\ callbacks["L1"] = << FALSE >>

\* C7: once cancel() has been called on a loader, no step writes to its
\* reference table or adds an entity of it to the scene.
C7_NoEffectAfterCancel ==
    [][\A l \in Loaders :
          cancelled[l] => /\ references'[l] = references[l]
                          /\ EntitiesOf(l)' = EntitiesOf(l)]_vars

\* a mesh binary and an image both completed after the cancellation
C7_Witness ==
    /\ cancelled["L1"]
    /\ \E id \in Ids : mesh_task["L1"][id] = "done_cancel"
    /\ \E id \in Ids : tex_task["L1"][id] = "done_cancel"

\* C8 as stated: scene.removeLoader( loader ) is performed exactly once over
\* the life of a loader, at most once in any run.
C8_Original ==
    \A l \in Loaders :
       /\ remove_calls[l] <= 1
       /\ (finished[l] \/ cancelled[l]) => remove_calls[l] = 1

\* C8 amended: scene.removeLoader( loader ) is performed once when the loader
\* finishes and once by the first cancel(): once in a run that only finishes or
\* is only cancelled, twice when cancel() is first called after the terminal
\* callback; from the first of them on the loader is not among the scene's.
C8_RemovedPerTerminalFlag ==
    \A l \in Loaders :
       /\ remove_calls[l] = (IF finished[l] THEN 1 ELSE 0) + (IF cancelled[l] THEN 1 ELSE 0)
       /\ remove_calls[l] >= 1 => l \notin scene_loaders

\* cancel() after the success callback: the second removeLoader
C8_Witness ==
    /\ remove_calls["L1"] = 2
    /\ callbacks["L1"] = << TRUE >>
    /\ cancel_jobs["L1"] = 1

\* C9 as stated: _finished and _cancelled are never both true.
C9_Original == \A l \in Loaders : ~(finished[l] /\ cancelled[l])

\* C9 amended: a cancelled loader never becomes finished, so _finished and
\* _cancelled are both true only when cancel() was called on a finished loader.
C9_NoFinishAfterCancel ==
    [][\A l \in Loaders : cancelled[l] => (finished'[l] = finished[l])]_vars

\* the manifest failure arrived at a cancelled loader and did not finish it
C9_Witness ==
    /\ cancelled["L1"] /\ ~finished["L1"]
    /\ stage["L1"] = "failed"
    /\ cancel_jobs["L1"] = 0

\* C10: a cancel() call on a loader that is already cancelled changes nothing:
\* no flag, no abort, no removal from the scene, no further microtask.
C10_CancelIdempotent ==
    [][\A l \in Loaders :
          (cancelled[l] /\ cancel_calls'[l] = cancel_calls[l] + 1) =>
             UNCHANGED << stage, cancelled, finished, aborted, references, oscene,
                          req_count, req_ended, mesh_task, tex_task, cancel_jobs,
                          scene_loaders, scene_entities, callbacks, remove_calls,
                          builds, seen, registered_at_fetch, lookup, viewer >>]_vars

\* two cancel() calls in a row: one removal, one microtask
C10_Witness ==
    /\ cancel_calls["L1"] = 2
    /\ cancel_jobs["L1"] = 1
    /\ remove_calls["L1"] = 1
    /\ ~finished["L1"]

\* C11: once the completion callback has fired with TRUE, no later step (a
\* cancel() call or the microtask it queues) invokes the callback again or
\* changes the scene's entity list, the scene's loader set or the reference table.
C11_CancelAfterSuccessIsNoOp ==
    [][\A l \in Loaders :
          Fired(l, TRUE) => /\ callbacks'[l] = callbacks[l]
                            /\ scene_entities' = scene_entities
                            /\ scene_loaders' = scene_loaders
                            /\ references'[l] = references[l]]_vars

\* success with an entity in the scene, then cancel(), then its microtask
C11_Witness ==
    /\ callbacks["L1"] = << TRUE >>
    /\ cancelled["L1"] /\ finished["L1"]
    /\ cancel_jobs["L1"] = 0
    /\ EntitiesOf("L1") # << >>
    /\ "L1" \notin scene_loaders

\* C12: a cancel() call never invokes the completion callback itself; the first
\* one sets the cancelled flag, raises the abort signal, deregisters the loader
\* and queues one microtask, and the callback(loader, FALSE) of the cancellation
\* is made by that microtask, in a later step, when all three already hold.
C12_CancelCallbackIsDeferred ==
    [][\A l \in Loaders :
          /\ cancel_calls'[l] = cancel_calls[l] + 1 =>
                /\ callbacks'[l] = callbacks[l]
                /\ ~cancelled[l] => /\ cancelled'[l]
                                    /\ aborted'[l]
                                    /\ l \notin scene_loaders'
                                    /\ cancel_jobs'[l] = cancel_jobs[l] + 1
          /\ cancel_jobs'[l] = cancel_jobs[l] - 1 =>
                /\ cancelled[l] /\ aborted[l] /\ l \notin scene_loaders
                /\ callbacks'[l] \in {callbacks[l], Append(callbacks[l], FALSE)}]_vars

\* cancelled while the manifest was being fetched; the microtask has reported it
C12_Witness ==
    /\ stage["L1"] = "fetch"
    /\ cancel_calls["L1"] = 1
    /\ cancel_jobs["L1"] = 0
    /\ callbacks["L1"] = << FALSE >>

\* an entity descriptor the switch of _load_entity_list constructs an entity for
Constructible(item) == item.type \in {"generic", "markerline", "text", NoType}

\* C13: at every invocation of the completion callback with TRUE the scene
\* already holds one entity of the loader for each constructible descriptor of
\* entity_list, and no entity of the loader is appended afterwards.
C13_SuccessAfterBuilder ==
    \A l \in Loaders : \A i \in DOMAIN callbacks[l] :
       callbacks[l][i] =>
          /\ seen[l][i] = Len(SelectSeq(oscene[l].entity_list, Constructible))
          /\ Len(EntitiesOf(l)) = seen[l][i]

\* success reported for a manifest of two constructible descriptors and a mesh
C13_Witness ==
    /\ callbacks["L1"] = << TRUE >>
    /\ seen["L1"] = << 2 >>
    /\ \E id \in Ids : mesh_task["L1"][id] = "done_ok"

\* a request of the loader is on its way: the manifest or a sub-resource
FetchInFlight(l) == stage[l] \in {"fetch", "json"} \/ InFlight(l) > 0

\* C14 as stated: the loader is registered with the scene before the manifest
\* fetch is issued, and whenever a fetch is in flight and the loader is neither
\* finished nor cancelled, the loader is in the scene's loader set.
C14_Original ==
    \A l \in Loaders :
       /\ stage[l] # "new" => registered_at_fetch[l]
       /\ (FetchInFlight(l) /\ ~finished[l] /\ ~cancelled[l]) => l \in scene_loaders

\* C14 amended: the constructor issues the manifest fetch first and registers
\* the loader right after it, in the same run-to-completion step; between
\* steps, whenever a fetch is in flight and the loader is neither finished nor
\* cancelled, the loader is in the scene's loader set.
C14_RegisteredWhileFetching ==
    \A l \in Loaders :
       /\ stage[l] # "new" => ~registered_at_fetch[l]
       /\ (FetchInFlight(l) /\ ~finished[l] /\ ~cancelled[l]) => l \in scene_loaders

\* the manifest is parsed and a mesh binary is being fetched, nobody cancelled
C14_Witness ==
    /\ stage["L1"] = "loaded"
    /\ \E id \in Ids : mesh_task["L1"][id] = "fetch"
    /\ ~finished["L1"] /\ ~cancelled["L1"]
    /\ "L1" \in scene_loaders
    /\ ~registered_at_fetch["L1"]

\* the keys of the reference table
Keys(l) == {id \in Ids : references[l][id] # Undefined}

\* the identifiers of the descriptors an entity was constructed for
EntityKeys(l) ==
    {oscene[l].entity_list[i].id : i \in {j \in DOMAIN oscene[l].entity_list :
        /\ Constructible(oscene[l].entity_list[j])
        /\ oscene[l].entity_list[j].id # NoId}}

\* success was reported and no sub-resource fetch failed
AllLoaded(l) ==
    /\ Fired(l, TRUE)
    /\ \A id \in Ids : mesh_task[l][id] # "done_err" /\ tex_task[l][id] # "done_err"

\* C15 as stated: when every sub-resource fetch succeeded, the keys of the
\* reference table at success are the identifiers declared in mesh_register and
\* texture_register and the ids of the constructed entities, and the scene
\* received one entity per constructible descriptor.
C15_Original ==
    \A l \in Loaders :
       AllLoaded(l) =>
          /\ Keys(l) = {id \in Ids : oscene[l].mesh_register[id] # "absent"}
                       \cup {id \in Ids : oscene[l].texture_register[id] # "absent"}
                       \cup EntityKeys(l)
          /\ Len(EntitiesOf(l)) = Len(SelectSeq(oscene[l].entity_list, Constructible))

\* C15 amended: as stated, but a register entry counts only when the loader
\* acts on it: a mesh entry with a binary or a vertices field, a texture entry
\* with an image field.
C15_ReferenceTableKeys ==
    \A l \in Loaders :
       AllLoaded(l) =>
          /\ Keys(l) = {id \in Ids : oscene[l].mesh_register[id] \in {"binary", "vertices"}}
                       \cup {id \in Ids : oscene[l].texture_register[id] = "image"}
                       \cup EntityKeys(l)
          /\ Len(EntitiesOf(l)) = Len(SelectSeq(oscene[l].entity_list, Constructible))

\* a loaded mesh binary, a loaded image and an identified entity, all stored
C15_Witness ==
    /\ callbacks["L1"] = << TRUE >>
    /\ ~cancelled["L1"]
    /\ mesh_task["L1"]["b"] = "done_ok"
    /\ tex_task["L1"]["b"] = "done_ok"
    /\ EntityKeys("L1") = {"a"}
    /\ Len(EntitiesOf("L1")) = 2
    /\ Keys("L1") = {"a", "b"}

\* the positions in entity_list of the constructible descriptors, ascending
ConstructibleAt(l) ==
    SelectSeq([i \in 1..Len(oscene[l].entity_list) |-> i],
              LAMBDA i : Constructible(oscene[l].entity_list[i]))

\* the type an entity of descriptor i is constructed with
TypeAt(l, i) ==
    IF oscene[l].entity_list[i].type = NoType THEN "generic"
    ELSE oscene[l].entity_list[i].type

\* C16: once the entity builder has run, the loader's entities in the scene are
\* those of the constructible descriptors of entity_list, in manifest order,
\* each of its descriptor's type; an entity in the reference table belongs to
\* the last constructible descriptor that carries the identifier (a descriptor
\* of unknown type registers nothing); and success is reported.
C16_EntitiesInManifestOrder ==
    \A l \in Loaders :
       builds[l] # << >> =>
          /\ Len(EntitiesOf(l)) = Len(ConstructibleAt(l))
          /\ \A k \in DOMAIN EntitiesOf(l) :
                EntitiesOf(l)[k].entity =
                   Entity(TypeAt(l, ConstructibleAt(l)[k]), ConstructibleAt(l)[k])
          /\ \A id \in Ids :
                references[l][id].kind = "entity" =>
                   \E k \in DOMAIN ConstructibleAt(l) :
                      LET i == ConstructibleAt(l)[k]
                      IN  /\ oscene[l].entity_list[i].id = id
                          /\ references[l][id] = Entity(TypeAt(l, i), i)
                          /\ \A k2 \in DOMAIN ConstructibleAt(l) :
                                oscene[l].entity_list[ConstructibleAt(l)[k2]].id = id
                                   => ConstructibleAt(l)[k2] <= i
          /\ callbacks[l][1] = TRUE

\* an identified descriptor of unknown type first, a text entity after it
C16_Witness ==
    /\ callbacks["L1"] = << TRUE >>
    /\ Len(oscene["L1"].entity_list) = 2
    /\ oscene["L1"].entity_list[1] = [type |-> "unknown", id |-> "a"]
    /\ oscene["L1"].entity_list[2].type = "text"
    /\ Len(EntitiesOf("L1")) = 1
    /\ getReference(State, "L1", "a") = Null

\* C17: the step that parses a manifest whose mesh_register, texture_register
\* and entity_list are empty reports success itself, with no sub-resource fetch
\* dispatched, no request counted and no entity added.
C17_EmptyManifestSucceedsAtOnce ==
    [][\A l \in Loaders :
          (stage[l] = "json" /\ stage'[l] = "loaded" /\ oscene'[l] = EmptyScene) =>
             /\ callbacks'[l] = << TRUE >>
             /\ finished'[l]
             /\ Dispatched(l)' = 0
             /\ req_count'[l] = 0
             /\ EntitiesOf(l)' = << >>]_vars

\* an empty manifest was parsed and nothing else has happened since
C17_Witness ==
    /\ stage["L1"] = "loaded"
    /\ oscene["L1"] = EmptyScene
    /\ callbacks["L1"] = << TRUE >>
    /\ builds["L1"] = << [req_count |-> 0, req_ended |-> FALSE] >>
    /\ cancel_calls["L1"] = 0

\* C18 as stated: a getReference( id ) call changes no loader or scene state
\* and returns the object stored under id in the reference table, or null when
\* no object is stored under id.
C18_Original ==
    /\ lookup.id \in Ids =>
          \/ lookup.result = Null
          \/ lookup.result.kind \in {"mesh", "texture", "entity"}
    /\ lookup.id \in LookupIds \ Ids => lookup.result = Null

\* the part of C18 that holds: a getReference( id ) call changes nothing but
\* what its caller receives, and for the identifier of a manifest it returns
\* the object the table holds under it now, or null when it holds none.
C18_LookupIsPure ==
    [][lookup' # lookup =>
          /\ UNCHANGED << stage, cancelled, finished, aborted, references, oscene,
                          req_count, req_ended, mesh_task, tex_task, cancel_jobs,
                          scene_loaders, scene_entities, callbacks, remove_calls,
                          cancel_calls, builds, seen, registered_at_fetch, viewer >>
          /\ lookup'.id \in Ids =>
                lookup'.result = IF references["L1"][lookup'.id] # Undefined
                                 THEN references["L1"][lookup'.id] ELSE Null]_vars

\* a lookup of a stored texture on a cancelled loader
C18_Witness ==
    /\ cancelled["L1"]
    /\ lookup.id \in Ids
    /\ lookup.result = Texture

MeshDone == {"done_ok", "done_err", "done_cancel"}
TexDone == {"done_ok", "done_err", "done_cancel"}

\* the sub-resource tasks of l that have counted down
Completed(l) ==
    Cardinality({i \in Ids : mesh_task[l][i] \in MeshDone})
  + Cardinality({i \in Ids : tex_task[l][i] \in TexDone})

\* C19: between steps the join counter is the number of sub-resource tasks
\* dispatched and not yet completed, never negative; a step lowers it by the
\* number of tasks it completes, whether they loaded, failed or were cancelled;
\* a completed task stays completed and a dispatched one is not dispatched again.
C19_OneDecrementPerTask ==
    /\ [](\A l \in Loaders : req_count[l] = InFlight(l) /\ req_count[l] >= 0)
    /\ [][\A l \in Loaders :
             /\ stage[l] = "loaded" =>
                   /\ req_count'[l] = req_count[l] - (Completed(l)' - Completed(l))
                   /\ Dispatched(l)' = Dispatched(l)
             /\ \A id \in Ids :
                   /\ mesh_task[l][id] \in MeshDone => mesh_task'[l][id] = mesh_task[l][id]
                   /\ tex_task[l][id] \in TexDone => tex_task'[l][id] = tex_task[l][id]
                   /\ mesh_task[l][id] # "none" => mesh_task'[l][id] # "fetch"
                         \/ mesh_task[l][id] = "fetch"
                   /\ tex_task[l][id] # "none" => tex_task'[l][id] # "load"
                         \/ tex_task[l][id] = "load"]_vars

\* a mesh binary counted down after the cancellation, an image after failing
C19_Witness ==
    /\ cancelled["L1"]
    /\ \E id \in Ids : mesh_task["L1"][id] = "done_cancel"
    /\ \E id \in Ids : tex_task["L1"][id] = "done_err"
    /\ req_count["L1"] = 0

MeshJoining == {"join_ok", "join_err", "join_cancel"}

\* C20: on a cancelled loader, a step of a mesh-binary chain that passes a
\* checkpoint leaves the reference table alone and sends the chain to its last
\* handler; that last handler counts down and, even when the counter reaches 0
\* with registration finished, runs no entity builder and reports no success.
C20_CancelledMeshIsInert ==
    [][\A l \in Loaders : \A id \in Ids :
          (cancelled[l] /\ mesh_task'[l][id] # mesh_task[l][id]) =>
             /\ references'[l] = references[l]
             /\ builds'[l] = builds[l]
             /\ callbacks'[l] = callbacks[l]
             /\ scene_entities' = scene_entities
             /\ finished'[l] = finished[l]
             /\ mesh_task[l][id] \in {"fetch", "body"} => mesh_task'[l][id] = "join_cancel"
             /\ mesh_task[l][id] \in MeshJoining =>
                   req_count'[l] = req_count[l] - 1]_vars

\* the last task of a cancelled load, a mesh binary, brought the counter to 0
C20_Witness ==
    /\ cancelled["L1"] /\ ~finished["L1"]
    /\ req_ended["L1"] /\ req_count["L1"] = 0
    /\ \E id \in Ids : mesh_task["L1"][id] = "done_cancel" /\ references["L1"][id] = Undefined
    /\ \A id \in Ids : tex_task["L1"][id] = "none"
    /\ builds["L1"] = << >>
    /\ callbacks["L1"] = << FALSE >>

\* the positions of the constructible descriptors that carry the identifier id
EntitiesNamed(l, id) ==
    {i \in DOMAIN oscene[l].entity_list :
        /\ Constructible(oscene[l].entity_list[i])
        /\ oscene[l].entity_list[i].id = id}

\* C21: after the success callback, getReference(id) of an identifier that a
\* constructed entity carries returns the entity of the last such descriptor
\* in entity_list order, whatever mesh or texture was registered under id.
C21_LastWriteWins ==
    \A l \in Loaders : \A id \in Ids :
       (Fired(l, TRUE) /\ EntitiesNamed(l, id) # {}) =>
          LET last == CHOOSE i \in EntitiesNamed(l, id) :
                         \A j \in EntitiesNamed(l, id) : j <= i
          IN  getReference(State, l, id) = Entity(TypeAt(l, last), last)

\* a loaded mesh binary and two entities, all under the same identifier
C21_Witness ==
    /\ callbacks["L1"] = << TRUE >>
    /\ mesh_task["L1"]["a"] = "done_ok"
    /\ EntitiesNamed("L1", "a") = {1, 2}
    /\ getReference(State, "L1", "a").kind = "entity"
    /\ getReference(State, "L1", "a").index = 2

\* a step leaves everything loader m owns, and m's place in the scene, as it was
Untouched(m) ==
    /\ references'[m] = references[m]
    /\ req_count'[m] = req_count[m]
    /\ req_ended'[m] = req_ended[m]
    /\ oscene'[m] = oscene[m]
    /\ stage'[m] = stage[m]
    /\ mesh_task'[m] = mesh_task[m]
    /\ tex_task'[m] = tex_task[m]
    /\ cancelled'[m] = cancelled[m]
    /\ finished'[m] = finished[m]
    /\ aborted'[m] = aborted[m]
    /\ cancel_jobs'[m] = cancel_jobs[m]
    /\ callbacks'[m] = callbacks[m]
    /\ EntitiesOf(m)' = EntitiesOf(m)
    /\ (m \in scene_loaders') = (m \in scene_loaders)

\* the completion callback of l is what l's own state calls for
OwnOutcome(l) ==
    /\ (stage[l] = "loaded" /\ ~cancelled[l] /\ InFlight(l) = 0) => callbacks[l] = << TRUE >>
    /\ (stage[l] = "failed" /\ ~cancelled[l]) => callbacks[l] = << FALSE >>
    /\ (cancelled[l] /\ ~finished[l] /\ cancel_jobs[l] = 0) => callbacks[l] = << FALSE >>
    /\ Len(callbacks[l]) <= 1

\* C22: with two loaders on one scene, every step is a step of one loader and
\* leaves the other's reference table, join counter, tasks, flags, callback
\* log, entities and membership of the scene's loader set unchanged; and each
\* loader's completion callback is the one its own state calls for.
C22_LoadersAreIsolated ==
    /\ [](\A l \in Loaders : OwnOutcome(l))
    /\ [][\E l \in Loaders : \A m \in Loaders \ {l} : Untouched(m)]_vars

\* one loader cancelled and reported, the other succeeded with an image and an
\* entity stored under the identifier both use
C22_Witness ==
    /\ callbacks["L1"] = << FALSE >>
    /\ cancelled["L1"]
    /\ tex_task["L1"]["a"] = "done_cancel"
    /\ callbacks["L2"] = << TRUE >>
    /\ ~cancelled["L2"]
    /\ mesh_task["L2"]["a"] = "done_ok"
    /\ Len(EntitiesOf("L2")) = 1
    /\ references["L1"]["a"] = Undefined
    /\ references["L2"]["a"].kind = "entity"

\* C23: a constructed loader is in the scene's loader set exactly while it is
\* neither finished nor cancelled; the step that sets _finished or _cancelled
\* also removes it, the first cancel() before any cancellation callback; and a
\* loader that has left the set never returns to it.
C23_ActiveIffRunning ==
    /\ [](\A l \in Loaders :
             stage[l] # "new" =>
                (l \in scene_loaders <=> (~finished[l] /\ ~cancelled[l])))
    /\ [][\A l \in Loaders :
             /\ (stage[l] # "new" /\ l \notin scene_loaders) => l \notin scene_loaders'
             /\ (finished'[l] /\ ~finished[l]) => l \notin scene_loaders'
             /\ (cancelled'[l] /\ ~cancelled[l]) =>
                   (l \notin scene_loaders' /\ callbacks'[l] = callbacks[l])]_vars

\* cancelled before the manifest arrived; the aborted fetch has since failed
C23_Witness ==
    /\ stage["L1"] = "failed"
    /\ cancelled["L1"] /\ ~finished["L1"]
    /\ cancel_calls["L1"] = 1
    /\ callbacks["L1"] = << FALSE >>
    /\ scene_entities = << >>
    /\ "L1" \notin scene_loaders

\* no identifier is declared both in mesh_register and in texture_register
DistinctIds(l) ==
    \A id \in Ids : \/ oscene[l].mesh_register[id] = "absent"
                    \/ oscene[l].texture_register[id] = "absent"

\* what the manifest and the outcome of each sub-resource put under id
ExpectedReference(l, id) ==
    IF EntitiesNamed(l, id) # {}
    THEN LET last == CHOOSE i \in EntitiesNamed(l, id) :
                        \A j \in EntitiesNamed(l, id) : j <= i
         IN  Entity(TypeAt(l, last), last)
    ELSE IF oscene[l].mesh_register[id] = "vertices" THEN Mesh("vertices")
    ELSE IF mesh_task[l][id] = "done_ok" THEN Mesh("binary")
    ELSE IF tex_task[l][id] = "done_ok" THEN Texture
    ELSE Undefined

\* the entities the manifest puts into the scene, in order
ExpectedEntities(l) ==
    [k \in DOMAIN ConstructibleAt(l) |->
        [loader |-> l,
         entity |-> Entity(TypeAt(l, ConstructibleAt(l)[k]), ConstructibleAt(l)[k])]]

\* C24: without cancellation and with distinct mesh and texture identifiers,
\* the result of a load is a function of the manifest and of the outcome of
\* each sub-resource, so it is the same for every order of the completions:
\* the callback is never FALSE, it is TRUE once all sub-resources completed,
\* and then the reference table and the entity list are the expected ones.
C24_CompletionOrderIsIrrelevant ==
    \A l \in Loaders :
       (stage[l] = "loaded" /\ cancel_calls[l] = 0 /\ DistinctIds(l)) =>
          /\ ~Fired(l, FALSE)
          /\ InFlight(l) = 0 => callbacks[l] = << TRUE >>
          /\ Fired(l, TRUE) =>
                /\ InFlight(l) = 0
                /\ \A id \in Ids : references[l][id] = ExpectedReference(l, id)
                /\ EntitiesOf(l) = ExpectedEntities(l)

\* two sub-resources completed, one loaded and one failed, then the entities
C24_Witness ==
    /\ callbacks["L1"] = << TRUE >>
    /\ cancel_calls["L1"] = 0
    /\ mesh_task["L1"]["a"] = "done_ok"
    /\ tex_task["L1"]["b"] = "done_err"
    /\ Len(EntitiesOf("L1")) = 2
    /\ references["L1"]["a"].kind = "entity"

\* the teardown steps of one destroy() call, in order
OneTeardown ==
    << "cancelAnimationFrame", "detach", "removeChild", "globe.cancel",
       "tile_texture_cache.cancel", "layers.cancel", "cancelLoaders" >>

\* C25: once destroy() has returned, no animation-frame request is pending and
\* _frame_req_id is 0, the render callback is detached and the canvas removed,
\* every loader of the scene has been cancelled, and the teardown was performed
\* once; from then on no step runs _updateFrame or the render callback's
\* onUpdateFrame, and a destroy() call changes nothing.
C25_DestroyStopsFramesOnce ==
    /\ [](viewer.is_destroyed =>
             /\ viewer.frame_req_id = 0
             /\ viewer.raf_pending = {}
             /\ viewer.render_callback = "null"
             /\ ~viewer.canvas_attached
             /\ viewer.teardown = OneTeardown
             /\ scene_loaders = {}
             /\ \A l \in Loaders : (stage[l] # "new" /\ ~finished[l]) => cancelled[l])
    /\ [][viewer.is_destroyed =>
             /\ viewer'.frame_runs = viewer.frame_runs
             /\ viewer'.user_updates = viewer.user_updates
             /\ viewer'.destroy_calls # viewer.destroy_calls =>
                   /\ viewer' = [viewer EXCEPT !.destroy_calls = @ + 1]
                   /\ UNCHANGED << stage, cancelled, finished, aborted, references,
                                   oscene, req_count, req_ended, mesh_task, tex_task,
                                   cancel_jobs, scene_loaders, scene_entities,
                                   callbacks, remove_calls, cancel_calls, builds,
                                   seen, registered_at_fetch, lookup >>]_vars

\* two frames ran, destroy() cancelled a loading loader, destroy() was called
\* again, and the loader has reported its cancellation
C25_Witness ==
    /\ viewer.is_destroyed
    /\ viewer.destroy_calls = 2
    /\ viewer.frame_runs = 2
    /\ viewer.user_updates = 2
    /\ cancel_calls["L1"] = 0
    /\ cancelled["L1"]
    /\ callbacks["L1"] = << FALSE >>

====
